---- MODULE Spec2Model ----
(***************************************************************************)
(* Model of the Pasig Full Disclosure scraper: the timestamp store         *)
(* (last_updated.txt), the page cache (htmls/<path>.html), the lazy        *)
(* refresh of update_if_needed, and the row extraction of the get_*        *)
(* functions of scrape.py.                                                 *)
(*                                                                         *)
(* Text is modelled as a sequence of tokens (strings).  An instant is a    *)
(* natural number of clock ticks; its ISO text is three tokens, one of     *)
(* them the colon that real ISO instants contain ("17:29:40+08:00").       *)
(* An optional value (Python's None) is a sequence of length 0 or 1.       *)
(***************************************************************************)
EXTENDS Integers, Sequences, FiniteSets, TLC

VARIABLES now, tsfile, cache, req, prev, call

vars == <<now, tsfile, cache, req, prev, call>>

\* ------------------------------------------------------------------ bounds
MaxTime == 3
MaxTimer == 2

\* timedelta(days = 1), the default refresh_timer, in clock ticks
DefaultTimer == 2

\* ------------------------------------------------------------ basic values
None == <<>>
Some(x) == <<x>>
IsNone(o) == Len(o) = 0

Instants == 0..MaxTime

path_to_url ==
  [p \in {"resolutions", "ordinances", "executive-orders", "bids-and-awards"} |->
     CASE p = "resolutions" -> "https://pasigcity.gov.ph/city-resolutions"
       [] p = "ordinances" -> "https://pasigcity.gov.ph/city-ordinances"
       [] p = "executive-orders" -> "https://pasigcity.gov.ph/executive-orders"
       [] OTHER -> "https://pasigcity.gov.ph/bids-and-awards"]

Paths == DOMAIN path_to_url

\* The sources the modelled calls ask for; the other two only hold entries in the
\* store (the code treats all four alike, the path only names the URL and the file)
ReqPaths == {"resolutions", "bids-and-awards"}

Procs == {"r1", "r2"}

\* ------------------------------------------------------------ text helpers
IsSpace(c) == c \in {" ", "\n"}

RECURSIVE lstrip(_)
lstrip(s) == IF s # <<>> /\ IsSpace(Head(s)) THEN lstrip(Tail(s)) ELSE s

RECURSIVE rstrip(_)
rstrip(s) ==
  IF s # <<>> /\ IsSpace(s[Len(s)]) THEN rstrip(SubSeq(s, 1, Len(s) - 1)) ELSE s

strip(s) == rstrip(lstrip(s))

Contains(s, c) == \E i \in 1..Len(s) : s[i] = c

FirstIndex(s, c) == CHOOSE i \in 1..Len(s) : s[i] = c /\ \A j \in 1..(i - 1) : s[j] # c

\* line.split(":", 1) on a line that holds a colon
split_colon(line) ==
  LET i == FirstIndex(line, ":")
  IN  <<SubSeq(line, 1, i - 1), SubSeq(line, i + 1, Len(line))>>

\* datetime.isoformat() of an instant in UTC+8
isoformat(t) == <<ToString(t), ":", "+08">>

\* datetime.fromisoformat: the text must be a well-formed instant
IsIso(v) == \E t \in Instants : v = isoformat(t)

fromisoformat(v) == CHOOSE t \in Instants : v = isoformat(t)

\* f"{key}: {value}\n"
format_line(key, value) == key \o <<":", " ">> \o value \o <<"\n">>

\* ------------------------------------------------------- timestamp store
\* One parsed line of last_updated.txt: None for a skipped line, else the pair.
parse_line(raw) ==
  LET line == strip(raw)
  IN  IF line # <<>> /\ Contains(line, ":")
      THEN LET kv == split_colon(line)
           IN  Some([key |-> strip(kv[1]), value |-> strip(kv[2])])
      ELSE None

\* get_time: the value of the first line whose key is the path
RECURSIVE get_time(_, _)
get_time(lines, path) ==
  IF lines = <<>> THEN None
  ELSE LET e == parse_line(Head(lines))
       IN  IF ~IsNone(e) /\ e[1].key = <<path>>
           THEN Some(e[1].value)
           ELSE get_time(Tail(lines), path)

\* times[key] = value on a dict kept in insertion order
dict_set(times, key, value) ==
  IF \E i \in 1..Len(times) : times[i].key = key
  THEN [i \in 1..Len(times) |->
          IF times[i].key = key THEN [key |-> key, value |-> value] ELSE times[i]]
  ELSE Append(times, [key |-> key, value |-> value])

\* update_time without its read of the existing entries
read_times_forgotten(lines, times) == times

\* the read loop of update_time
RECURSIVE read_times(_, _)
read_times(lines, times) ==
  IF lines = <<>> THEN times
  ELSE LET e == parse_line(Head(lines))
       IN  read_times(Tail(lines),
                      IF IsNone(e) THEN times ELSE dict_set(times, e[1].key, e[1].value))

\* the write loop of update_time
write_times(times) == [i \in 1..Len(times) |-> format_line(times[i].key, times[i].value)]

\* what a write of `data` at offset 0 leaves in a file that holds `old`
overwrite(old, data) ==
  IF Len(data) >= Len(old) THEN data ELSE data \o SubSeq(old, Len(data) + 1, Len(old))

\* ------------------------------------------------------------ initial state
\* Response bodies the upstream site may serve (html.text)
Bodies == {<<"p1">>, <<"p2", "p2">>}

NoFile == [exists |-> FALSE, data |-> <<>>]
File(d) == [exists |-> TRUE, data |-> d]

\* Contents of last_updated.txt the service may start from: no file, an empty
\* file, files left by earlier refreshes, and hand-edited files.
InitStores ==
  { NoFile,
    File(<<>>),
    File(<<format_line(<<"resolutions">>, isoformat(0))>>),
    File(<<format_line(<<"ordinances">>, isoformat(0)),
           <<"junk", "\n">>,
           <<"\n">>,
           format_line(<<"bids-and-awards">>, isoformat(0))>>),
    File(<<<<" ", "resolutions", " ", ":">> \o isoformat(0) \o <<" ", "\n">>,
           format_line(<<"executive-orders">>, isoformat(0))>>),
    File(<<format_line(<<"resolutions">>, <<"garbage">>),
           format_line(<<"ordinances">>, isoformat(0))>>) }

HasEntry(store, p) == store.exists /\ ~IsNone(get_time(store.data, p))

Idle ==
  [pc |-> "idle", kind |-> "none", path |-> "resolutions", timer |-> DefaultTimer,
   last |-> None, html |-> <<>>, cur |-> 0, times |-> <<>>, err |-> "",
   soup |-> None, last_updated |-> None,
   pre_ts |-> NoFile, pre_cache |-> [p \in Paths |-> NoFile], gate |-> None, nfetch |-> 0,
   ut_pre |-> None]

NoPrev == [path |-> "resolutions", refreshed |-> None]

NoCall == [fn |-> "none"]

StoreInit ==
  /\ now = 0
  /\ tsfile \in InitStores
  /\ cache \in { [p \in Paths |-> IF HasEntry(tsfile, p) THEN File(<<"p1">>) ELSE NoFile],
                 [p \in Paths |-> File(<<"p1">>)] }
  /\ req = [r \in Procs |-> Idle]
  /\ prev = NoPrev

Init == StoreInit /\ call = NoCall

\* ------------------------------------------------------------------ clock
\* The clock advances between calls and while a call waits for the upstream
\* response; the file operations of one call take no time.
Tick ==
  /\ now < MaxTime
  /\ \A r \in Procs : req[r].pc \in {"idle", "fetch"}
  /\ now' = now + 1
  /\ UNCHANGED <<tsfile, cache, req, prev, call>>

\* ------------------------------------------------------------ a request
Raise(r, e) == req' = [req EXCEPT ![r].pc = "raised", ![r].err = e]

\* what follows the return of update_if_needed
AfterUpdate(k) == IF k = "update_if_needed" THEN "done" ELSE "open_html"

\* A direct call update_if_needed(path, refresh_timer)
CallUpdateIfNeeded(r, p, t) ==
  /\ req[r].pc = "idle"
  /\ req' = [req EXCEPT ![r] = [Idle EXCEPT !.pc = "get_time", !.kind = "update_if_needed",
                                            !.path = p, !.timer = t,
                                            !.pre_ts = tsfile, !.pre_cache = cache]]
  /\ UNCHANGED <<now, tsfile, cache, prev, call>>

\* A read: get_resolutions, get_ordinances, get_executive_orders,
\* get_bids_and_awards or get_other_notices call update_if_needed(<their path>)
CallRead(r, p) ==
  /\ req[r].pc = "idle"
  /\ req' = [req EXCEPT ![r] = [Idle EXCEPT !.pc = "get_time", !.kind = "read",
                                            !.path = p, !.timer = DefaultTimer,
                                            !.pre_ts = tsfile, !.pre_cache = cache]]
  /\ UNCHANGED <<now, tsfile, cache, prev, call>>

\* last_updated_str = get_time(path)
GetTime(r) ==
  /\ req[r].pc = "get_time"
  /\ IF ~tsfile.exists
     THEN Raise(r, "FileNotFoundError")
     ELSE LET v == get_time(tsfile.data, req[r].path)
          IN  req' = [req EXCEPT ![r].last = v,
                                 ![r].pc = IF IsNone(v) THEN "fetch" ELSE "gate"]
  /\ UNCHANGED <<now, tsfile, cache, prev, call>>

\* the comparison written with > for >=
is_stale_strict(current_time, last_updated, refresh_timer) ==
  current_time - last_updated > refresh_timer

\* time_difference >= refresh_timer
is_stale(current_time, last_updated, refresh_timer) ==
  current_time - last_updated >= refresh_timer

\* fromisoformat, datetime.now, the comparison
Gate(r) ==
  /\ req[r].pc = "gate"
  /\ IF ~IsIso(req[r].last[1])
     THEN Raise(r, "ValueError")
     ELSE LET last_updated == fromisoformat(req[r].last[1])
          IN  req' = [req EXCEPT ![r].gate = Some([now |-> now, last |-> last_updated]),
                                 ![r].pc = IF is_stale(now, last_updated, req[r].timer)
                                           THEN "fetch" ELSE AfterUpdate(req[r].kind)]
  /\ UNCHANGED <<now, tsfile, cache, prev, call>>

\* refresh_html with the cache file opened for writing before the request is made
FetchAfterOpen(r) ==
  /\ req[r].pc = "fetch"
  /\ cache' = [cache EXCEPT ![req[r].path] = File(<<>>)]
  /\ \/ \E b \in Bodies :
          req' = [req EXCEPT ![r].html = b, ![r].nfetch = @ + 1, ![r].pc = "cache_write"]
     \/ req' = [req EXCEPT ![r].nfetch = @ + 1, ![r].pc = "raised",
                           ![r].err = "RequestException"]
  /\ UNCHANGED <<now, tsfile, prev, call>>

\* refresh_html: html = requests.get(url)
Fetch(r) ==
  /\ req[r].pc = "fetch"
  /\ \/ \E b \in Bodies :
          req' = [req EXCEPT ![r].html = b, ![r].nfetch = @ + 1, ![r].pc = "cache_open"]
     \/ req' = [req EXCEPT ![r].nfetch = @ + 1, ![r].pc = "raised",
                           ![r].err = "RequestException"]
  /\ UNCHANGED <<now, tsfile, cache, prev, call>>

\* refresh_html: os.makedirs, open(filename, "w")
CacheOpen(r) ==
  /\ req[r].pc = "cache_open"
  /\ cache' = [cache EXCEPT ![req[r].path] = File(<<>>)]
  /\ req' = [req EXCEPT ![r].pc = "cache_write"]
  /\ UNCHANGED <<now, tsfile, prev, call>>

\* refresh_html: f.write(html.text) and the close of the file
CacheWrite(r) ==
  /\ req[r].pc = "cache_write"
  /\ cache' = [cache EXCEPT ![req[r].path] =
                  File(overwrite(cache[req[r].path].data, req[r].html))]
  /\ req' = [req EXCEPT ![r].pc = "ut_read"]
  /\ UNCHANGED <<now, tsfile, prev, call>>

\* update_time: current_time and the read of the existing times
UtRead(r) ==
  /\ req[r].pc = "ut_read"
  /\ req' = [req EXCEPT ![r].cur = now,
                        ![r].times = IF tsfile.exists THEN read_times(tsfile.data, <<>>)
                                     ELSE <<>>,
                        ![r].ut_pre = Some(tsfile),
                        ![r].pc = "ut_open"]
  /\ UNCHANGED <<now, tsfile, cache, prev, call>>

\* update_time: open("last_updated.txt", "w")
UtOpen(r) ==
  /\ req[r].pc = "ut_open"
  /\ tsfile' = File(<<>>)
  /\ req' = [req EXCEPT ![r].pc = "ut_write"]
  /\ UNCHANGED <<now, cache, prev, call>>

\* update_time without the assignment times[path] = current_time
new_times_unset(times, path, current_time) == times

\* update_time: times[path] = current_time
new_times(times, path, current_time) == dict_set(times, <<path>>, isoformat(current_time))

\* update_time: the lines written back, then the return of update_if_needed
UtWrite(r) ==
  /\ req[r].pc = "ut_write"
  /\ tsfile' = File(overwrite(tsfile.data,
                   write_times(new_times(req[r].times, req[r].path, req[r].cur))))
  /\ req' = [req EXCEPT ![r].pc = AfterUpdate(req[r].kind)]
  /\ UNCHANGED <<now, cache, prev, call>>

\* get_*: the page parsed from what the cache held before update_if_needed ran
OpenHtmlBeforeUpdate(r) ==
  /\ req[r].pc = "open_html"
  /\ IF ~req[r].pre_cache[req[r].path].exists
     THEN Raise(r, "FileNotFoundError")
     ELSE req' = [req EXCEPT ![r].soup = Some(req[r].pre_cache[req[r].path].data),
                             ![r].pc = "last_updated"]
  /\ UNCHANGED <<now, tsfile, cache, prev, call>>

\* get_*: open(f"htmls/{path}.html") and the parse of what it holds
OpenHtml(r) ==
  /\ req[r].pc = "open_html"
  /\ IF ~cache[req[r].path].exists
     THEN Raise(r, "FileNotFoundError")
     ELSE req' = [req EXCEPT ![r].soup = Some(cache[req[r].path].data),
                             ![r].pc = "last_updated"]
  /\ UNCHANGED <<now, tsfile, cache, prev, call>>

\* get_*: last_updated = get_time(path), and the response
LastUpdated(r) ==
  /\ req[r].pc = "last_updated"
  /\ IF ~tsfile.exists
     THEN Raise(r, "FileNotFoundError")
     ELSE req' = [req EXCEPT ![r].last_updated = get_time(tsfile.data, req[r].path),
                             ![r].pc = "done"]
  /\ UNCHANGED <<now, tsfile, cache, prev, call>>

Refreshed(q) == q.nfetch > 0 /\ ~IsNone(q.ut_pre) /\ q.pc \in {"open_html", "last_updated", "done"}

\* the caller takes the result or the exception
Return(r) ==
  /\ req[r].pc \in {"done", "raised"}
  /\ prev' = IF req[r].pc = "done" /\ Refreshed(req[r])
             THEN [path |-> req[r].path, refreshed |-> Some(req[r].cur)]
             ELSE NoPrev
  /\ req' = [req EXCEPT ![r] = Idle]
  /\ UNCHANGED <<now, tsfile, cache, call>>

AllIdle == \A r \in Procs : req[r].pc = "idle"

Step(r) ==
  \/ GetTime(r) \/ Gate(r) \/ Fetch(r) \/ CacheOpen(r) \/ CacheWrite(r)
  \/ UtRead(r) \/ UtOpen(r) \/ UtWrite(r) \/ OpenHtml(r) \/ LastUpdated(r) \/ Return(r)

\* Single-threaded service: one call at a time
Next ==
  \/ Tick
  \/ \E p \in ReqPaths, t \in 1..MaxTimer : AllIdle /\ CallUpdateIfNeeded("r1", p, t)
  \/ \E p \in ReqPaths : AllIdle /\ CallRead("r1", p)
  \/ Step("r1")

Spec == Init /\ [][Next]_vars

\* ------------------------------------------------------------ disk faults
\* what a write that fails part-way may have left of `data`: a proper prefix
proper_prefixes(data) == {SubSeq(data, 1, k) : k \in 0..(Len(data) - 1)}

\* what the failed write loop of update_time may have left: some of the lines,
\* or the first line alone, cut after the first token of its value
torn_lines(lines) ==
  proper_prefixes(lines) \cup {<<SubSeq(lines[1], 1, 4)>>}

\* refresh_html with the error of os.makedirs / open swallowed
CacheOpenFailSwallowed(r) ==
  /\ req[r].pc = "cache_open"
  /\ req' = [req EXCEPT ![r].pc = "ut_read"]
  /\ UNCHANGED <<now, tsfile, cache, prev, call>>

\* refresh_html: os.makedirs or open(filename, "w") raises OSError
CacheOpenFail(r) ==
  /\ req[r].pc = "cache_open"
  /\ Raise(r, "OSError")
  /\ UNCHANGED <<now, tsfile, cache, prev, call>>

\* refresh_html: f.write(html.text) or the close raises OSError
CacheWriteFail(r) ==
  /\ req[r].pc = "cache_write"
  /\ \E d \in proper_prefixes(req[r].html) :
       cache' = [cache EXCEPT ![req[r].path] = File(overwrite(cache[req[r].path].data, d))]
  /\ Raise(r, "OSError")
  /\ UNCHANGED <<now, tsfile, prev, call>>

\* update_time: open("last_updated.txt", "w") raises OSError
UtOpenFail(r) ==
  /\ req[r].pc = "ut_open"
  /\ Raise(r, "OSError")
  /\ UNCHANGED <<now, tsfile, cache, prev, call>>

\* update_time: a f.write(line) or the close raises OSError
UtWriteFail(r) ==
  /\ req[r].pc = "ut_write"
  /\ \E w \in torn_lines(write_times(new_times(req[r].times, req[r].path, req[r].cur))) :
       tsfile' = File(overwrite(tsfile.data, w))
  /\ Raise(r, "OSError")
  /\ UNCHANGED <<now, cache, prev, call>>

StepFaults(r) ==
  \/ GetTime(r) \/ Gate(r) \/ Fetch(r) \/ CacheOpen(r) \/ CacheWrite(r)
  \/ UtRead(r) \/ UtOpen(r) \/ UtWrite(r) \/ OpenHtml(r) \/ LastUpdated(r) \/ Return(r)
  \/ CacheOpenFail(r) \/ CacheWriteFail(r) \/ UtOpenFail(r) \/ UtWriteFail(r)

\* Single-threaded reads on a disk that may fail at any write
NextFaults ==
  \/ Tick
  \/ \E p \in ReqPaths : AllIdle /\ CallRead("r1", p)
  \/ StepFaults("r1")

\* the stores the faulty disk starts from: no file, one entry, and entries of
\* other sources around a junk line
FaultStores ==
  { NoFile,
    File(<<format_line(<<"resolutions">>, isoformat(0))>>),
    File(<<format_line(<<"ordinances">>, isoformat(0)),
           <<"junk", "\n">>,
           <<"\n">>,
           format_line(<<"bids-and-awards">>, isoformat(0))>>) }

FaultInit == Init /\ tsfile \in FaultStores

SpecFaults == FaultInit /\ [][NextFaults]_vars

\* --------------------------------------------------------- concurrent reads
\* Two reads served at the same time (no lock is taken around the cache or
\* the store): the steps of the two calls interleave at the grain of one file
\* operation or one fetch.  The sources are stale at the start: the entries
\* are refresh_timer old, or absent.
RaceStores ==
  { File(<<>>),
    File(<<format_line(<<"resolutions">>, isoformat(0))>>),
    File(<<format_line(<<"ordinances">>, isoformat(0)),
           <<"junk", "\n">>,
           <<"\n">>,
           format_line(<<"bids-and-awards">>, isoformat(0))>>) }

RaceInit ==
  /\ now = DefaultTimer
  /\ tsfile \in RaceStores
  /\ cache = [p \in Paths |-> IF HasEntry(tsfile, p) THEN File(<<"p1">>) ELSE NoFile]
  /\ req = [r \in Procs |-> Idle]
  /\ prev = NoPrev
  /\ call = NoCall

StepRace(r) ==
  \/ GetTime(r) \/ Gate(r) \/ Fetch(r) \/ CacheOpen(r) \/ CacheWrite(r)
  \/ UtRead(r) \/ UtOpen(r) \/ UtWrite(r) \/ OpenHtml(r) \/ LastUpdated(r)

\* each of the two workers serves one read
NextRace ==
  \E r \in Procs :
    \/ \E p \in ReqPaths : CallRead(r, p)
    \/ StepRace(r)

SpecRace == RaceInit /\ [][NextRace]_vars

\* ============================================================== extraction
\* The parsed page (soup) is modelled by what the get_* functions ask of it:
\* the elements found by id or by class in document order, the rows (tr or li)
\* below a section, the first anchor of a row and its td cells.

MaxYear == 3
MaxLimit == 2
MaxElems == 2

Years == 1..MaxYear

\* str(year): the decimal digits
RECURSIVE str(_)
str(n) == IF n < 10 THEN <<ToString(n)>> ELSE str(n \div 10) \o <<ToString(n % 10)>>

\* str.lower() on the letters the model uses
lower_char(c) ==
  CASE c = "A" -> "a" [] c = "B" -> "b" [] c = "C" -> "c" [] c = "E" -> "e"
    [] c = "O" -> "o" [] OTHER -> c

lower(t) == [i \in 1..Len(t) |-> lower_char(t[i])]

\* the Python operator `q in t` on strings
IsSubstring(q, t) == \E i \in 0..(Len(t) - Len(q)) : SubSeq(t, i + 1, i + Len(q)) = q

\* query is not None and query.lower() not in title.lower()
filtered_out(query, title) ==
  ~IsNone(query) /\ ~IsSubstring(lower(query[1]), lower(title))

\* a_tag.get_text(strip = True) of an anchor with one text child
get_text(a_tag) == strip(a_tag.text)

\* tds[1].get_text(strip = True) if len(tds) > 1 else None
views_of(tds) == IF Len(tds) > 1 THEN Some(strip(tds[2])) ELSE None

\* the dict built for one row; `year` is given by the year-sectioned functions only
make_data(year, title, a_tag, tds) ==
  IF IsNone(year)
  THEN [title |-> title, link |-> a_tag.href, uuid |-> a_tag.uuid, views |-> views_of(tds)]
  ELSE [year |-> year[1], title |-> title, link |-> a_tag.href, uuid |-> a_tag.uuid,
        views |-> views_of(tds)]

\* the limit test written with > for >=
limit_reached_late(results, num_results) ==
  ~IsNone(num_results) /\ Len(results) > num_results[1]

\* num_results is not None and len(results) >= num_results
limit_reached(results, num_results) ==
  ~IsNone(num_results) /\ Len(results) >= num_results[1]

\* the row loop with results.insert(0, data) for results.append(data)
RECURSIVE rows_loop_prepend(_, _, _, _, _)
rows_loop_prepend(trs, results, year, query, num_results) ==
  IF trs = <<>> THEN results
  ELSE IF limit_reached(results, num_results) THEN results
  ELSE LET tr == Head(trs)
       IN  IF IsNone(tr.a)
           THEN rows_loop_prepend(Tail(trs), results, year, query, num_results)
           ELSE LET title == get_text(tr.a[1])
                IN  IF filtered_out(query, title)
                    THEN rows_loop_prepend(Tail(trs), results, year, query, num_results)
                    ELSE rows_loop_prepend(Tail(trs),
                                   <<make_data(year, title, tr.a[1], tr.tds)>> \o results,
                                   year, query, num_results)

\* for tr in all_trs: ... results.append(data)
RECURSIVE rows_loop(_, _, _, _, _)
rows_loop(trs, results, year, query, num_results) ==
  IF trs = <<>> THEN results
  ELSE IF limit_reached(results, num_results) THEN results
  ELSE LET tr == Head(trs)
       IN  IF IsNone(tr.a)
           THEN rows_loop(Tail(trs), results, year, query, num_results)
           ELSE LET title == get_text(tr.a[1])
                IN  IF filtered_out(query, title)
                    THEN rows_loop(Tail(trs), results, year, query, num_results)
                    ELSE rows_loop(Tail(trs),
                                   Append(results, make_data(year, title, tr.a[1], tr.tds)),
                                   year, query, num_results)

\* soup.find(id = id_to_use): the first element with that id, or None
RECURSIVE find_id(_, _)
find_id(soup, id) ==
  IF soup = <<>> THEN None
  ELSE IF Head(soup).id = id THEN Some(Head(soup))
  ELSE find_id(Tail(soup), id)

\* for year in range(start_year, end_year + 1) of get_resolutions / get_ordinances
RECURSIVE year_loop(_, _, _, _, _, _, _)
year_loop(soup, prefix, year, end_year, results, query, num_results) ==
  IF year > end_year THEN results
  ELSE IF limit_reached(results, num_results) THEN results
  ELSE LET year_soup == find_id(soup, <<prefix>> \o str(year))
       IN  IF IsNone(year_soup)
           THEN year_loop(soup, prefix, year + 1, end_year, results, query, num_results)
           ELSE year_loop(soup, prefix, year + 1, end_year,
                          rows_loop(year_soup[1].trs, results, Some(year), query, num_results),
                          query, num_results)

Ok(results) ==
  [status |-> "ok", err |-> "", num_results |-> Len(results), results |-> results]

Raised(e) == [status |-> "raised", err |-> e, num_results |-> 0, results |-> <<>>]

get_resolutions(soup, start_year, end_year, query, num_results) ==
  Ok(year_loop(soup, "cr-collapseOne-", start_year, end_year, <<>>, query, num_results))

get_ordinances(soup, start_year, end_year, query, num_results) ==
  Ok(year_loop(soup, "co-collapseTwo-", start_year, end_year, <<>>, query, num_results))

\* [header for header in headers if str(year) in header.find('h2').string]:
\* the error the first header without an h2, or without a single string in it, raises
RECURSIVE year_header_error(_)
year_header_error(headers) ==
  IF headers = <<>> THEN ""
  ELSE IF Head(headers).h2 = "none" THEN "AttributeError"
  ELSE IF Head(headers).h2 = "nostring" THEN "TypeError"
  ELSE year_header_error(Tail(headers))

year_header_of(headers, year) ==
  SelectSeq(headers, LAMBDA header : IsSubstring(str(year), header.string))

\* for year in range(start_year, end_year + 1) of get_executive_orders
RECURSIVE eo_year_loop(_, _, _, _, _, _)
eo_year_loop(headers, year, end_year, results, query, num_results) ==
  IF year > end_year THEN Ok(results)
  ELSE IF limit_reached(results, num_results) THEN Ok(results)
  ELSE IF year_header_error(headers) # "" THEN Raised(year_header_error(headers))
  ELSE LET year_header == year_header_of(headers, year)
       IN  IF Len(year_header) = 0
           THEN eo_year_loop(headers, year + 1, end_year, results, query, num_results)
           ELSE IF IsNone(year_header[1].sib)
           THEN Raised("AttributeError")
           ELSE eo_year_loop(headers, year + 1, end_year,
                             rows_loop(year_header[1].sib[1], results, Some(year), query,
                                       num_results),
                             query, num_results)

get_executive_orders(headers, start_year, end_year, query, num_results) ==
  eo_year_loop(headers, start_year, end_year, <<>>, query, num_results)

path_to_title ==
  [c \in {"annual-procurement-plan", "procurement-monitoring-report", "bid-bulletin",
          "invitation-to-bid", "request-for-quotation", "notice-of-awards",
          "notice-to-proceed", "purchase-order-of-contract", "other-notices"} |->
     CASE c = "annual-procurement-plan" -> "Annual Procurement Plan"
       [] c = "procurement-monitoring-report" -> "Procurement Monitoring Report"
       [] c = "bid-bulletin" -> "Bid Bulletin"
       [] c = "invitation-to-bid" -> "Invitation to Bid"
       [] c = "request-for-quotation" -> "Request for Quotation"
       [] c = "notice-of-awards" -> "Notice of Awards"
       [] c = "notice-to-proceed" -> "Notice to Proceed"
       [] c = "purchase-order-of-contract" -> "Purchase Order of Contract"
       [] OTHER -> "Other Notices"]

\* for header in headers: if header.h1.string == path: trs = ...; break
\* The result is the rows bound to trs, "unbound" when no header matched, or the
\* error raised on the way (a header without h1, a matching header without the
\* section two siblings on).
RECURSIVE header_loop(_, _, _)
header_loop(headers, path, tag) ==
  IF headers = <<>> THEN [err |-> "", bound |-> FALSE, trs |-> <<>>]
  ELSE LET header == Head(headers)
       IN  IF header.h1 = "none" THEN [err |-> "AttributeError", bound |-> FALSE, trs |-> <<>>]
           ELSE IF header.h1 = "ok" /\ header.string = path
           THEN IF IsNone(header.sib)
                THEN [err |-> "AttributeError", bound |-> FALSE, trs |-> <<>>]
                ELSE [err |-> "", bound |-> TRUE,
                      trs |-> IF tag = "tr" THEN header.sib[1].trs ELSE header.sib[1].lis]
           ELSE header_loop(Tail(headers), path, tag)

\* results = []; for tr in trs: ...
bids_rows(found, query, num_results) ==
  IF found.err # "" THEN Raised(found.err)
  ELSE IF ~found.bound THEN Raised("UnboundLocalError")
  ELSE Ok(rows_loop(found.trs, <<>>, None, query, num_results))

get_bids_and_awards(headers, category, query, num_results) ==
  IF category \notin DOMAIN path_to_title THEN Raised("KeyError")
  ELSE bids_rows(header_loop(headers, path_to_title[category], "tr"), query, num_results)

get_other_notices(headers, query, num_results) ==
  bids_rows(header_loop(headers, "Other Notices", "li"), query, num_results)

\* ------------------------------------------------------- pagination layer
\* query(records, text_filter, skip, top) of the request handlers
title_matches(text_filter, title) ==
  IsNone(text_filter) \/ IsSubstring(lower(text_filter[1]), lower(title))

slice(xs, skip, top) ==
  LET lo == skip + 1
      hi == IF skip + top < Len(xs) THEN skip + top ELSE Len(xs)
  IN  IF lo > hi THEN <<>> ELSE SubSeq(xs, lo, hi)

query_records(records, text_filter, skip, top) ==
  LET filtered == SelectSeq(records, LAMBDA d : title_matches(text_filter, d.title))
      page == slice(filtered, skip, top)
  IN  [num_results |-> Len(filtered), skip |-> skip, top |-> top,
       returned_results |-> Len(page), results |-> page]

\* GET /{path}: the extraction of the whole range, then the pagination
handle_resolutions(soup, start_year, end_year, text_filter, skip, top) ==
  query_records(get_resolutions(soup, start_year, end_year, None, None).results,
                text_filter, skip, top)

\* --------------------------------------------------------- the inputs drawn
Anchor(t, h, u) == [text |-> t, href |-> h, uuid |-> u]

RowA == [a |-> Some(Anchor(<<"A", "b">>, Some("/a"), Some("u-a"))), tds |-> <<<<"x">>, <<" ", "7">>>>]
RowB == [a |-> Some(Anchor(<<" ", "b", "c", " ">>, Some("/c"), None)), tds |-> <<<<"x">>>>]
RowN == [a |-> None, tds |-> <<<<"x">>>>]
RowH == [a |-> Some(Anchor(<<" ">>, None, None)), tds |-> <<>>]

RowSeqs == {<<>>, <<RowN, RowA, RowB>>, <<RowH, RowB>>}

Queries == {None, Some(<<"B">>)}

Limits == {None} \cup {Some(n) : n \in 0..MaxLimit}

SeqsUpTo(S, n) == UNION {[1..k -> S] : k \in 0..n}

YearSections(prefix) ==
  {[id |-> <<prefix>> \o str(y), trs |-> rs] : y \in Years, rs \in RowSeqs}

YearPages(prefix) == SeqsUpTo(YearSections(prefix), MaxElems)

Heading(y) == <<"E", "O", " ">> \o str(y)

CardHeaders ==
  {[h2 |-> "ok", string |-> Heading(y), sib |-> Some(rs)] :
       y \in Years, rs \in RowSeqs \ {<<>>}}
    \cup {[h2 |-> "ok", string |-> Heading(1) \o <<"-">> \o str(2), sib |-> Some(<<RowB>>)],
          [h2 |-> "ok", string |-> Heading(1), sib |-> None],
          [h2 |-> "none", string |-> <<>>, sib |-> None],
          [h2 |-> "nostring", string |-> <<>>, sib |-> Some(<<RowA>>)]}

CardPages == SeqsUpTo(CardHeaders, MaxElems)

Categories == {"bid-bulletin", "other-notices"}

BidHeaders ==
  {[h1 |-> "ok", string |-> t, sib |-> Some([trs |-> rs, lis |-> <<RowB>>])] :
       t \in {"Bid Bulletin", "Invitation to Bid"}, rs \in RowSeqs}
    \cup {[h1 |-> "ok", string |-> "Other Notices", sib |-> Some([trs |-> <<>>, lis |-> rs])] :
            rs \in RowSeqs}
    \cup {[h1 |-> "ok", string |-> "Bid Bulletin", sib |-> None],
          [h1 |-> "nostring", string |-> "", sib |-> None],
          [h1 |-> "none", string |-> "", sib |-> None]}

BidPages == SeqsUpTo(BidHeaders, MaxElems)

MaxSkip == 3
MaxTop == 2

\* ----------------------------------------------------- extraction calls
StoreIdle ==
  /\ now = 0
  /\ tsfile = File(<<>>)
  /\ cache = [p \in Paths |-> NoFile]
  /\ req = [r \in Procs |-> Idle]
  /\ prev = NoPrev

ExtractInit == StoreIdle /\ call = NoCall

CallGetResolutions ==
  /\ call = NoCall
  /\ \E soup \in YearPages("cr-collapseOne-"), s \in Years, e \in Years,
        q \in Queries, n \in Limits :
       call' = [fn |-> "get_resolutions", soup |-> soup, start_year |-> s, end_year |-> e,
                query |-> q, num_results |-> n, ret |-> get_resolutions(soup, s, e, q, n)]
  /\ UNCHANGED <<now, tsfile, cache, req, prev>>

\* get_ordinances is get_resolutions with another id prefix: it is called without a limit
CallGetOrdinances ==
  /\ call = NoCall
  /\ \E soup \in YearPages("co-collapseTwo-"), s \in Years, e \in Years,
        q \in Queries, n \in {None} :
       call' = [fn |-> "get_ordinances", soup |-> soup, start_year |-> s, end_year |-> e,
                query |-> q, num_results |-> n, ret |-> get_ordinances(soup, s, e, q, n)]
  /\ UNCHANGED <<now, tsfile, cache, req, prev>>

CallGetExecutiveOrders ==
  /\ call = NoCall
  /\ \E soup \in CardPages, s \in Years, e \in Years, q \in Queries, n \in Limits :
       call' = [fn |-> "get_executive_orders", soup |-> soup, start_year |-> s,
                end_year |-> e, query |-> q, num_results |-> n,
                ret |-> get_executive_orders(soup, s, e, q, n)]
  /\ UNCHANGED <<now, tsfile, cache, req, prev>>

CallGetBidsAndAwards ==
  /\ call = NoCall
  /\ \E soup \in BidPages, c \in Categories, q \in Queries, n \in Limits :
       call' = [fn |-> "get_bids_and_awards", soup |-> soup, category |-> c,
                query |-> q, num_results |-> n, ret |-> get_bids_and_awards(soup, c, q, n)]
  /\ UNCHANGED <<now, tsfile, cache, req, prev>>

CallGetOtherNotices ==
  /\ call = NoCall
  /\ \E soup \in BidPages, q \in Queries, n \in Limits :
       call' = [fn |-> "get_other_notices", soup |-> soup, category |-> "other-notices",
                query |-> q, num_results |-> n, ret |-> get_other_notices(soup, q, n)]
  /\ UNCHANGED <<now, tsfile, cache, req, prev>>

CallHandleResolutions ==
  /\ call = NoCall
  /\ \E soup \in YearPages("cr-collapseOne-"), q \in Queries,
        skip \in 0..MaxSkip, top \in 1..MaxTop :
       call' = [fn |-> "handle_resolutions", soup |-> soup, start_year |-> 1,
                end_year |-> MaxYear, query |-> q, skip |-> skip, top |-> top,
                ret |-> handle_resolutions(soup, 1, MaxYear, q, skip, top)]
  /\ UNCHANGED <<now, tsfile, cache, req, prev>>

\* the caller takes the response
TakeResult ==
  /\ call # NoCall
  /\ call' = NoCall
  /\ UNCHANGED <<now, tsfile, cache, req, prev>>

NextExtract ==
  \/ TakeResult
  \/ CallGetResolutions
  \/ CallGetOrdinances
  \/ CallGetExecutiveOrders
  \/ CallGetBidsAndAwards
  \/ CallGetOtherNotices
  \/ CallHandleResolutions

SpecExtract == ExtractInit /\ [][NextExtract]_vars

\* ------------------------------------------------- year-sectioned calls
\* The year-sectioned functions alone, on the pages whose sections hold rows:
\* every order of the sections in the page, every range, filter and limit.
OrderRows == RowSeqs \ {<<>>}

OrderSections(prefix) ==
  {[id |-> <<prefix>> \o str(y), trs |-> rs] : y \in Years, rs \in OrderRows}

OrderPages(prefix) == SeqsUpTo(OrderSections(prefix), MaxElems)

OrderCards ==
  {[h2 |-> "ok", string |-> Heading(y), sib |-> Some(rs)] : y \in Years, rs \in OrderRows}
    \cup {[h2 |-> "ok", string |-> Heading(1) \o <<"-">> \o str(2), sib |-> Some(<<RowB>>)],
          [h2 |-> "none", string |-> <<>>, sib |-> None]}

OrderCardPages == SeqsUpTo(OrderCards, MaxElems)

ReadResolutions ==
  /\ call = NoCall
  /\ \E soup \in OrderPages("cr-collapseOne-"), s \in Years, e \in Years,
        q \in Queries, n \in Limits :
       call' = [fn |-> "get_resolutions", soup |-> soup, start_year |-> s, end_year |-> e,
                query |-> q, num_results |-> n, ret |-> get_resolutions(soup, s, e, q, n)]
  /\ UNCHANGED <<now, tsfile, cache, req, prev>>

ReadOrdinances ==
  /\ call = NoCall
  /\ \E soup \in OrderPages("co-collapseTwo-"), s \in Years, e \in Years,
        q \in Queries, n \in {None} :
       call' = [fn |-> "get_ordinances", soup |-> soup, start_year |-> s, end_year |-> e,
                query |-> q, num_results |-> n, ret |-> get_ordinances(soup, s, e, q, n)]
  /\ UNCHANGED <<now, tsfile, cache, req, prev>>

ReadExecutiveOrders ==
  /\ call = NoCall
  /\ \E soup \in OrderCardPages, s \in Years, e \in Years, q \in Queries, n \in Limits :
       call' = [fn |-> "get_executive_orders", soup |-> soup, start_year |-> s,
                end_year |-> e, query |-> q, num_results |-> n,
                ret |-> get_executive_orders(soup, s, e, q, n)]
  /\ UNCHANGED <<now, tsfile, cache, req, prev>>

NextOrder ==
  \/ TakeResult
  \/ ReadResolutions
  \/ ReadOrdinances
  \/ ReadExecutiveOrders

SpecOrder == ExtractInit /\ [][NextOrder]_vars

\* ================================================================ claims
\* the calls in flight or just completed
Calls == {req[r] : r \in Procs}

AfterGate(q) == ~IsNone(q.gate)

Elapsed(q) == q.gate[1].now - q.gate[1].last

Fetching(q) == q.pc = "fetch" \/ q.nfetch > 0

\* C1: when the store holds an instant for the source, update_if_needed fetches
\* if and only if now - last_refreshed >= refresh_timer; a completed refresh has
\* overwritten the cache with the fetched body and set the entry to the refresh
\* instant; without a refresh the cache and the store are what they were.
C1_StalenessGate ==
  \A q \in Calls :
    AfterGate(q) =>
      /\ get_time(q.pre_ts.data, q.path) = Some(isoformat(q.gate[1].last))
      /\ Fetching(q) <=> (Elapsed(q) >= q.timer)
      /\ (Elapsed(q) = q.timer) => Fetching(q)
      /\ (Elapsed(q) = q.timer - 1) => ~Fetching(q)
      /\ (q.pc = "done" /\ Fetching(q)) =>
            /\ cache[q.path] = File(q.html)
            /\ get_time(tsfile.data, q.path) = Some(isoformat(q.cur))
      /\ ~Fetching(q) => (tsfile = q.pre_ts /\ cache = q.pre_cache)

\* C1 witness: a call that found an entry exactly refresh_timer old and refreshed
C1_Witness ==
  \E q \in Calls :
    AfterGate(q) /\ Elapsed(q) = q.timer /\ q.pc = "done" /\ q.nfetch = 1

\* a call that found an entry one tick younger than refresh_timer and returned
C1_YoungerReached ==
  \E q \in Calls :
    AfterGate(q) /\ Elapsed(q) = q.timer - 1 /\ q.pc = "done" /\ q.nfetch = 0

\* C2: a read that finds no entry for its source, the missing last_updated.txt
\* included, makes exactly one refresh, ends without an error of its own making
\* (only the upstream may fail) and leaves an entry for the source.
C2_NoTimestampBootstrap ==
  \A q \in Calls :
    (q.kind = "read" /\ ~HasEntry(q.pre_ts, q.path)) =>
      /\ q.pc = "raised" => q.err = "RequestException"
      /\ q.pc = "done" => (q.nfetch = 1 /\ HasEntry(tsfile, q.path))

\* the same for the stores that exist as a file: there the bootstrap works
BootstrapWithStoreFile ==
  \A q \in Calls :
    (q.kind = "read" /\ q.pre_ts.exists /\ ~HasEntry(q.pre_ts, q.path)) =>
      /\ q.pc = "raised" => q.err = "RequestException"
      /\ q.pc = "done" => (q.nfetch = 1 /\ HasEntry(tsfile, q.path))

\* C3: when the upstream fetch of a lazy refresh fails, the call ends with that
\* error, and the cache and the store are exactly what they were before the call.
C3_FetchFailureAtomic ==
  \A q \in Calls :
    (q.nfetch > 0 /\ q.html = <<>>) =>
      /\ q.pc = "raised" /\ q.err = "RequestException"
      /\ tsfile = q.pre_ts
      /\ cache = q.pre_cache

\* C3 witness: a stale source with a cached page whose refresh failed upstream
C3_Witness ==
  \E q \in Calls :
    /\ q.pc = "raised" /\ q.err = "RequestException"
    /\ AfterGate(q)
    /\ q.pre_cache[q.path] = File(<<"p1">>)

UpdateTimeDone(q) == ~IsNone(q.ut_pre) /\ q.pc \in {"open_html", "last_updated", "done"}

Keys(lines) == [i \in 1..Len(lines) |-> parse_line(lines[i])]

\* C4: after update_time(p) the store holds one well-formed line per source id,
\* p's entry is the new instant, and every other source that had an entry keeps
\* it with the value it had.
C4_UpdateTimeFrame ==
  \A q \in Calls :
    UpdateTimeDone(q) =>
      LET pre == q.ut_pre[1]
          post == tsfile.data
          ks == Keys(post)
      IN  /\ tsfile.exists
          /\ \A i \in 1..Len(post) : ~IsNone(ks[i])
          /\ \A i, j \in 1..Len(post) : i # j => ks[i][1].key # ks[j][1].key
          /\ get_time(post, q.path) = Some(isoformat(q.cur))
          /\ \A k \in Paths \ {q.path} :
               IF HasEntry(pre, k)
               THEN get_time(post, k) = get_time(pre.data, k)
               ELSE IsNone(get_time(post, k))

\* C4 witness: update_time has rewritten a store that held other sources' entries
C4_Witness ==
  \E q \in Calls :
    /\ UpdateTimeDone(q)
    /\ \E k \in Paths \ {q.path} : HasEntry(q.ut_pre[1], k)
    /\ HasEntry(q.ut_pre[1], q.path)

\* C5: a refresh leaves the refresh instant as the source's entry, and the next
\* update_if_needed for that source, made less than refresh_timer after it, reads
\* that instant, fetches nothing and leaves the cache and the store as they were.
C5_ClockRestartsAtRefresh ==
  \A q \in Calls :
    /\ (q.pc = "done" /\ q.nfetch > 0) =>
          /\ get_time(tsfile.data, q.path) = Some(isoformat(q.cur))
          /\ q.cur <= now
          /\ AfterGate(q) => q.cur >= q.gate[1].now
    /\ (~IsNone(prev.refreshed) /\ q.path = prev.path /\ q.pc \notin {"idle", "get_time"}) =>
          /\ q.last = Some(isoformat(prev.refreshed[1]))
          /\ q.pc # "raised" \/ q.err = "RequestException"
          /\ (q.pc # "gate" /\ ~Fetching(q)) => AfterGate(q)
          /\ AfterGate(q) =>
               /\ q.gate[1].last = prev.refreshed[1]
               /\ (q.gate[1].now - prev.refreshed[1] < q.timer) =>
                     (~Fetching(q) /\ tsfile = q.pre_ts /\ cache = q.pre_cache)

\* C5 witness: a second call for a source refreshed by the call before it, made
\* later but within refresh_timer, has returned without a fetch
C5_Witness ==
  \E q \in Calls :
    /\ ~IsNone(prev.refreshed) /\ q.path = prev.path
    /\ q.pc = "done" /\ q.nfetch = 0
    /\ AfterGate(q) /\ q.gate[1].now > prev.refreshed[1]

\* ------------------------------------------------------------ store faults
\* the value get_time reads for p is not the text of an instant
MalformedEntry(store, p) == HasEntry(store, p) /\ ~IsIso(get_time(store.data, p)[1])

\* C11: whatever last_updated.txt holds, no call ends with an error caused by
\* one of its lines (only the upstream may fail), and a source whose line is
\* not a well-formed instant is treated as a source without an entry: the call
\* refreshes it.
C11_MalformedLinesNeverRaise ==
  \A q \in Calls :
    q.pre_ts.exists =>
      /\ q.pc = "raised" => q.err = "RequestException"
      /\ (MalformedEntry(q.pre_ts, q.path) /\ q.pc = "done") =>
            (q.nfetch = 1 /\ get_time(tsfile.data, q.path) = Some(isoformat(q.cur)))

\* what holds: the lines without a colon, the blank lines and the padded lines
\* raise nothing, in a store whose entry for the source is an instant or absent
ColonlessLinesSkipped ==
  \A q \in Calls :
    (q.pre_ts.exists /\ ~MalformedEntry(q.pre_ts, q.path)) =>
      /\ q.pc = "raised" => q.err = "RequestException"
      /\ q.pc \notin {"idle", "get_time"} => q.last = get_time(q.pre_ts.data, q.path)

\* the store with a junk line and a blank line was read and rewritten by a call
JunkLinesReached ==
  \E q \in Calls :
    /\ q.pc = "done" /\ q.nfetch = 1
    /\ \E i \in 1..Len(q.pre_ts.data) : q.pre_ts.data[i] = <<"junk", "\n">>

\* ------------------------------------------------------- one fetch per read
BeforeOpenHtml(q) ==
  q.pc \in {"get_time", "gate", "fetch", "cache_open", "cache_write",
            "ut_read", "ut_open", "ut_write", "open_html"}

\* C12: a read fetches at most once, has not read the cached file while the
\* refresh is still to be made or under way, and the page it parses is the
\* content of the cache after the refresh: the fetched body when it refreshed,
\* the page the cache held at the call when it did not.
C12_OneFetchBeforeRead ==
  \A q \in Calls :
    q.kind = "read" =>
      /\ q.nfetch <= 1
      /\ BeforeOpenHtml(q) => IsNone(q.soup)
      /\ ~IsNone(q.soup) =>
           /\ q.soup = Some(cache[q.path].data)
           /\ q.nfetch = 1 => (q.soup = Some(q.html) /\ q.html \in Bodies)
           /\ q.nfetch = 0 => q.soup = Some(q.pre_cache[q.path].data)

\* C12 witness: a read that refreshed a page the cache already held has parsed
\* the new body, which differs from the old page
C12_Witness ==
  \E q \in Calls :
    /\ q.kind = "read" /\ q.pc = "done" /\ q.nfetch = 1
    /\ q.pre_cache[q.path].exists
    /\ q.pre_cache[q.path].data # q.html
    /\ q.soup = Some(q.html)

\* a read that found a fresh entry has served the cached page without a fetch
ServedFromCacheReached ==
  \E q \in Calls :
    q.kind = "read" /\ q.pc = "done" /\ q.nfetch = 0 /\ ~IsNone(q.soup)

\* ------------------------------------------------- extraction: reference
YearFns == {"get_resolutions", "get_ordinances", "get_executive_orders"}

CategoryFns == {"get_bids_and_awards", "get_other_notices"}

ExtractFns == YearFns \cup CategoryFns

Min(a, b) == IF a < b THEN a ELSE b

Max(a, b) == IF a > b THEN a ELSE b

First(S) == CHOOSE i \in S : \A j \in S : i <= j

IdPrefix(fn) == IF fn = "get_ordinances" THEN "co-collapseTwo-" ELSE "cr-collapseOne-"

\* the positions of the page elements that are year y's section for call c
SectionsOf(c, y) ==
  IF c.fn = "get_executive_orders"
  THEN {i \in 1..Len(c.soup) : c.soup[i].h2 = "ok" /\ IsSubstring(str(y), c.soup[i].string)}
  ELSE {i \in 1..Len(c.soup) : c.soup[i].id = <<IdPrefix(c.fn)>> \o str(y)}

YearMissing(c, y) == SectionsOf(c, y) = {}

\* the rows of year y's section (of the first, when several match)
SectionRows(c, y) ==
  LET e == c.soup[First(SectionsOf(c, y))]
  IN  IF c.fn = "get_executive_orders"
      THEN (IF IsNone(e.sib) THEN <<>> ELSE e.sib[1])
      ELSE e.trs

\* the records of the rows that have an anchor whose title passes the filter
RowRecords(trs, year, text_filter) ==
  LET kept == SelectSeq(trs, LAMBDA tr :
                  ~IsNone(tr.a) /\ title_matches(text_filter, strip(tr.a[1].text)))
  IN  [i \in 1..Len(kept) |->
         make_data(year, strip(kept[i].a[1].text), kept[i].a[1], kept[i].tds)]

RECURSIVE YearRecords(_, _, _, _)
YearRecords(c, y, end_year, text_filter) ==
  IF y > end_year THEN <<>>
  ELSE (IF YearMissing(c, y) THEN <<>>
        ELSE RowRecords(SectionRows(c, y), Some(y), text_filter))
       \o YearRecords(c, y + 1, end_year, text_filter)

CategoryTitle(c) ==
  IF c.fn = "get_other_notices" THEN "Other Notices" ELSE path_to_title[c.category]

CategorySections(c) ==
  {i \in 1..Len(c.soup) : c.soup[i].h1 = "ok" /\ c.soup[i].string = CategoryTitle(c)}

CategoryRows(c) ==
  LET e == c.soup[First(CategorySections(c))]
  IN  IF IsNone(e.sib) THEN <<>>
      ELSE IF c.fn = "get_other_notices" THEN e.sib[1].lis ELSE e.sib[1].trs

\* every record of the requested range that passes the call's filter, in page order
Matching(c) ==
  IF c.fn \in CategoryFns
  THEN (IF CategorySections(c) = {} THEN <<>> ELSE RowRecords(CategoryRows(c), None, c.query))
  ELSE YearRecords(c, c.start_year, c.end_year, c.query)

ExtractOk(c) == c.fn \in ExtractFns /\ c.ret.status = "ok"

\* C6: num_results of a response is the number of records of the requested
\* range whose title passes the filter, whatever the limit, skip or top.
C6_TotalCount ==
  /\ (ExtractOk(call) /\ (IsNone(call.num_results) \/ call.num_results[1] >= 1)) =>
        call.ret.num_results = Len(Matching(call))
  /\ call.fn = "handle_resolutions" => call.ret.num_results = Len(Matching(call))

\* what holds of the get_* functions: the count is cut at the limit
CountCutAtLimit ==
  ExtractOk(call) =>
    call.ret.num_results =
      (IF IsNone(call.num_results) THEN Len(Matching(call))
       ELSE Min(call.num_results[1], Len(Matching(call))))

\* the pages of the call's filter for skip = 0, top, 2 * top, ... up to skip k * top
RECURSIVE PagesFrom(_, _, _)
PagesFrom(c, skip, n) ==
  IF n = 0 THEN <<>>
  ELSE handle_resolutions(c.soup, c.start_year, c.end_year, c.query, skip, c.top).results
       \o PagesFrom(c, skip + c.top, n - 1)

\* C7: the results are the elements [skip, skip + top) of the filtered sequence,
\* their number is min(top, max(0, total - skip)), and the pages for skip = 0,
\* top, 2 * top, ... concatenated are the filtered sequence; the limit of the
\* get_* functions is the page with skip = 0.
C7_SliceSemantics ==
  /\ call.fn = "handle_resolutions" =>
       LET F == Matching(call)
           k == Min(call.top, Max(0, Len(F) - call.skip))
       IN  /\ call.ret.returned_results = k
           /\ Len(call.ret.results) = k
           /\ \A i \in 1..k : call.ret.results[i] = F[call.skip + i]
           /\ PagesFrom(call, 0, Len(F) + 1) = F
  /\ (ExtractOk(call) /\ ~IsNone(call.num_results) /\ call.num_results[1] >= 1) =>
       LET F == Matching(call)
           k == Min(call.num_results[1], Len(F))
       IN  /\ Len(call.ret.results) = k
           /\ \A i \in 1..k : call.ret.results[i] = F[i]

\* C7 witness: a get_* call whose limit cut a longer filtered sequence
C7_Witness ==
  /\ ExtractOk(call)
  /\ ~IsNone(call.query)
  /\ ~IsNone(call.num_results) /\ call.num_results[1] = 2
  /\ Len(Matching(call)) > 2
  /\ Len(call.ret.results) = 2

\* a second page of the pagination layer was served
SecondPageReached ==
  /\ call.fn = "handle_resolutions"
  /\ call.skip = call.top /\ Len(Matching(call)) > call.skip
  /\ call.ret.returned_results >= 1

\* C8: when no section of the page is headed by the display title of the
\* category, get_bids_and_awards and get_other_notices return no records and
\* raise nothing.
C8_CategorySectionAbsent ==
  (call.fn \in CategoryFns /\ CategorySections(call) = {}) =>
     (call.ret.status = "ok" /\ call.ret.results = <<>>)

\* what holds instead: without a matching section the call raises
CategoryAbsentRaises ==
  (call.fn \in CategoryFns /\ CategorySections(call) = {}) =>
     (call.ret.status = "raised" /\ call.ret.err \in {"UnboundLocalError", "AttributeError"})

\* C9: with a year of the range missing from the page, the three year-sectioned
\* functions raise nothing, return no record of that year, and return the
\* records of the other years.
C9_MissingYearTolerance ==
  \A y \in Years :
    (call.fn \in YearFns /\ call.start_year <= y /\ y <= call.end_year
       /\ YearMissing(call, y)) =>
      /\ call.ret.status = "ok"
      /\ \A i \in 1..Len(call.ret.results) : call.ret.results[i].year # y
      /\ IsNone(call.num_results) => call.ret.results = Matching(call)

\* every card-header has an h2 with a single string, and each one that matches a
\* year of the range is followed by its section
HeadersWellFormed(c) ==
  c.fn = "get_executive_orders" =>
    /\ \A i \in 1..Len(c.soup) : c.soup[i].h2 = "ok"
    /\ \A y \in c.start_year..c.end_year :
         ~YearMissing(c, y) => ~IsNone(c.soup[First(SectionsOf(c, y))].sib)

\* what holds: a missing year is tolerated on the pages whose headers are well formed
MissingYearToleratedOnWellFormedPages ==
  \A y \in Years :
    (call.fn \in YearFns /\ call.start_year <= y /\ y <= call.end_year
       /\ YearMissing(call, y) /\ HeadersWellFormed(call)) =>
      /\ call.ret.status = "ok"
      /\ \A i \in 1..Len(call.ret.results) : call.ret.results[i].year # y
      /\ IsNone(call.num_results) => call.ret.results = Matching(call)

\* the rows of the page that the call may read
RowsOfPage(c) ==
  IF c.fn \in CategoryFns
  THEN UNION {{e.sib[1].trs[i] : i \in 1..Len(e.sib[1].trs)}
                \cup {e.sib[1].lis[i] : i \in 1..Len(e.sib[1].lis)} :
              e \in {c.soup[j] : j \in {k \in 1..Len(c.soup) : ~IsNone(c.soup[k].sib)}}}
  ELSE IF c.fn = "get_executive_orders"
  THEN UNION {{e.sib[1][i] : i \in 1..Len(e.sib[1])} :
              e \in {c.soup[j] : j \in {k \in 1..Len(c.soup) : ~IsNone(c.soup[k].sib)}}}
  ELSE UNION {{c.soup[j].trs[i] : i \in 1..Len(c.soup[j].trs)} : j \in 1..Len(c.soup)}

\* C10: every record returned comes from a row with an anchor, its link is not
\* null and its title is not empty.
C10_RecordWellFormed ==
  ExtractOk(call) =>
    \A i \in 1..Len(call.ret.results) :
      LET d == call.ret.results[i]
      IN  /\ ~IsNone(d.link)
          /\ d.title # <<>>
          /\ \E tr \in RowsOfPage(call) : ~IsNone(tr.a) /\ strip(tr.a[1].text) = d.title

\* what holds: every record comes from a row with an anchor, with the anchor's
\* stripped text as title and its href (or null) as link
RecordsComeFromAnchors ==
  ExtractOk(call) =>
    \A i \in 1..Len(call.ret.results) :
      LET d == call.ret.results[i]
      IN  \E tr \in RowsOfPage(call) :
            /\ ~IsNone(tr.a)
            /\ strip(tr.a[1].text) = d.title
            /\ tr.a[1].href = d.link

\* ------------------------------------------------------- result ordering
IsPrefix(a, b) == Len(a) <= Len(b) /\ SubSeq(b, 1, Len(a)) = a

OfYear(results, y) == SelectSeq(results, LAMBDA d : d.year = y)

EmptyRangeReached ==
  /\ call.fn \in YearFns
  /\ call.start_year > call.end_year
  /\ ~YearMissing(call, call.start_year) /\ ~YearMissing(call, call.end_year)
  /\ call.ret.results = <<>>

\* ------------------------------------------------ cache before timestamp
\* C15: in every state of single-threaded reads, the reads that abort at the
\* fetch, at the cache write or at the timestamp write included, a source that
\* has an entry in last_updated.txt has its cached page file.
C15_EntryImpliesCache ==
  \A p \in Paths : HasEntry(tsfile, p) => cache[p].exists

\* C15 witness: a read of a source that had no cached page has written the page
\* and then failed in the write of last_updated.txt, which still holds an entry
C15_Witness ==
  \E q \in Calls :
    /\ q.pc = "raised" /\ q.err = "OSError"
    /\ ~IsNone(q.ut_pre)
    /\ ~q.pre_cache[q.path].exists /\ cache[q.path].exists
    /\ \E p \in Paths : HasEntry(tsfile, p)

\* a read aborted in the cache write has left a cut page and the old entry
CutPageReached ==
  \E q \in Calls :
    /\ q.pc = "raised" /\ q.err = "OSError" /\ IsNone(q.ut_pre)
    /\ cache[q.path].exists /\ cache[q.path].data # q.html
    /\ HasEntry(tsfile, q.path)

\* ---------------------------------------------------------- refresh race
Completed(q) == q.kind = "read" /\ q.pc \in {"done", "raised"}

BothObservedStaleness == \A r \in Procs : Completed(req[r]) /\ req[r].nfetch > 0

\* C13: once two concurrent reads that both observed staleness have completed,
\* neither has failed for another reason than its own upstream fetch, every
\* source refreshed has a complete page in the cache and an entry in the store,
\* the read was served from a complete page, and every source that had an entry
\* when one of the reads began still has one.
C13_RaceHarmless ==
  BothObservedStaleness =>
    /\ \A r \in Procs : req[r].pc = "raised" => req[r].err = "RequestException"
    /\ \A r \in Procs :
         req[r].pc = "done" =>
           /\ cache[req[r].path].data \in Bodies
           /\ req[r].soup[1] \in Bodies
           /\ HasEntry(tsfile, req[r].path)
    /\ \A r \in Procs, p \in Paths : HasEntry(req[r].pre_ts, p) => HasEntry(tsfile, p)

\* what holds of the race: each read fetches at most once and raises nothing
\* but the failure of its own fetch
RaceFetchesOncePerRead ==
  \A r \in Procs :
    /\ req[r].nfetch <= 1
    /\ req[r].pc = "raised" => req[r].err = "RequestException"

\* two reads of different sources have both refreshed and completed
BothRefreshedReached ==
  /\ BothObservedStaleness
  /\ \A r \in Procs : req[r].pc = "done"
  /\ req["r1"].path # req["r2"].path

====
